---- MODULE Spec2Model ----
(***************************************************************************)
(* Heimdall: key generation options, the encrypted keystore (StoreKey /    *)
(* LoadKey) and the key manager (GenerateKey / GetKey).                    *)
(*                                                                         *)
(* Seven specifications share the variables:                                 *)
(*   Spec      the keystore used sequentially, with the key directory      *)
(*             shared with other processes (files can be altered there);   *)
(*   SpecRace  two concurrent StoreKey calls, each split at its os.Stat    *)
(*             and ioutil.WriteFile steps;                                 *)
(*   SpecKM    one key manager over its directory;                         *)
(*   SpecOpts  the pure functions of keyGenOpts.go applied to inputs       *)
(*             drawn by Init;                                              *)
(*   SpecCert  the certificate store;                                      *)
(*   SpecVerify the trust validator's revocation check;                    *)
(*   SpecSKI   the SKI methods of the ECDSA keys applied to keys drawn by  *)
(*             Init.                                                       *)
(***************************************************************************)
EXTENDS Integers, Sequences, FiniteSets, TLC

VARIABLES
    dirExists,  \* keystore: whether keyDirPath exists
    files,      \* keystore: file name -> content (Absent when no such file)
    origin,     \* history: name -> the StoreKey call that created the file
    tampers,    \* history: number of alterations made by other processes
    ret,        \* the last operation and what it returned
    pc,         \* SpecRace: each caller's position inside StoreKey
    loc,        \* SpecRace: each caller's arguments and locals
    wlog,       \* SpecRace history: callers in the order of their writes
    priKey,     \* key manager: km.priKey
    pubKey,     \* key manager: km.pubKey
    kmDir,      \* key manager: the key pairs persisted under km.path
    lastGen,    \* history: the pair of this manager's last successful
                \* GenerateKey
    optIn,      \* SpecOpts: the KeyGenOpts input
    strIn,      \* SpecOpts: the string input
    certDirExists, \* certificate store: whether the directory exists
    certFiles,  \* certificate store: file name -> content
    crls,       \* what each distribution point serves
    now,        \* the current time
    keyA,       \* SpecSKI: the first key
    keyB        \* SpecSKI: the second key

vars == <<dirExists, files, origin, tampers, ret, pc, loc, wlog,
          priKey, pubKey, kmDir, lastGen, optIn, strIn,
          certDirExists, certFiles, crls, now, keyA, keyB>>

keystoreVars == <<dirExists, files, origin, tampers>>
raceVars == <<pc, loc, wlog>>
kmVars == <<priKey, pubKey, kmDir, lastGen>>
optVars == <<optIn, strIn>>
certVars == <<certDirExists, certFiles, crls, now>>
skiVars == <<keyA, keyB>>

(***************************************************************************)
(* Bounds of the model.                                                    *)
(***************************************************************************)
\* private scalars are 1..MaxD
MaxD == 1
\* passwords are 1..NumPwd
NumPwd == 2
\* salts drawn by rand.Read are 0..MaxSalt
MaxSalt == 1
\* alterations of key files by other processes in one behaviour
MaxTamper == 1
\* KeyGenOpts inputs range from -OptSlack to UNKNOWN_KEYGENOPT + OptSlack
OptSlack == 2
\* certificate serial numbers are 1..MaxSerial
MaxSerial == 2
\* coordinates and scalars of the keys handed to SKI() are 1..MaxCoord
MaxCoord == 2
\* the clock and the revocation times are 0..MaxTime
MaxTime == 2

(***************************************************************************)
(* keyGenOpts.go                                                           *)
(***************************************************************************)
RSA1024 == 0
RSA2048 == 1
RSA4096 == 2
ECDSA224 == 3
ECDSA256 == 4
ECDSA384 == 5
ECDSA521 == 6
UNKNOWN_KEYGENOPT == 7

\* a variant of the table with one token written twice
optsArrDuplicate ==
    <<"rsa1024", "rsa2048", "rsa4096",
      "ecdsa224", "ecdsa256", "ecdsa256", "ecdsa521",
      "unknown_keyGenOpt">>

optsArr ==
    <<"rsa1024", "rsa2048", "rsa4096",
      "ecdsa224", "ecdsa256", "ecdsa384", "ecdsa521",
      "unknown_keyGenOpt">>

\* the seven options of the const block that name an algorithm
DefinedOpts ==
    {RSA1024, RSA2048, RSA4096, ECDSA224, ECDSA256, ECDSA384, ECDSA521}

ValidCheck(opts) ==
    IF opts < 0 \/ opts >= Len(optsArr) THEN FALSE ELSE TRUE

String(opts) ==
    IF ~ValidCheck(opts) THEN "unknown" ELSE optsArr[opts + 1]

\* the range loop of StringToKeyGenOpts from index idx (0-based) on
RECURSIVE ScanOpts(_, _)
ScanOpts(rawOpts, idx) ==
    IF idx >= Len(optsArr)
    THEN [opt |-> UNKNOWN_KEYGENOPT,
          err |-> "no such key generation option in option list"]
    ELSE IF rawOpts = optsArr[idx + 1]
         THEN [opt |-> idx, err |-> "nil"]
         ELSE ScanOpts(rawOpts, idx + 1)

StringToKeyGenOpts(rawOpts) == ScanOpts(rawOpts, 0)

ECDSACurveToKeyGenOpts(curve) ==
    CASE curve = "P224" -> ECDSA224
      [] curve = "P256" -> ECDSA256
      [] curve = "P384" -> ECDSA384
      [] curve = "P521" -> ECDSA521
      [] OTHER -> UNKNOWN_KEYGENOPT

KeyGenOptsToECDSACurve(opts) ==
    CASE opts = ECDSA224 -> "P224"
      [] opts = ECDSA256 -> "P256"
      [] opts = ECDSA384 -> "P384"
      [] opts = ECDSA521 -> "P521"
      [] OTHER -> "nil"

(***************************************************************************)
(* ECDSA keys (package key of the sample file).  A key is a record         *)
(* [Curve, D, X, Y, IsPrivate]; a public key carries D = 0.                *)
(***************************************************************************)
NoKey == [nokey |-> TRUE]

Scalars == 1..MaxD

\* the public point of private scalar d (ecdsa.GenerateKey computes it)
PointX(d) == 2 * d + 1
PointY(d) == 3 * d + 2

NewPriKey(curve, d) ==
    [Curve |-> curve, D |-> d, X |-> PointX(d), Y |-> PointY(d),
     IsPrivate |-> TRUE]

PublicKey(key) == [key EXCEPT !.D = 0, !.IsPrivate = FALSE]

\* ECDSAKeyGenerator.Generate; d is what rand.Reader yields, 0 when
\* ecdsa.GenerateKey fails
Generate(curve, d) ==
    IF curve = "nil"
    THEN [pri |-> NoKey, pub |-> NoKey,
          err |-> "curve value have not to be nil"]
    ELSE IF d = 0
         THEN [pri |-> NoKey, pub |-> NoKey,
               err |-> "failed to generate ECDSA key"]
         ELSE [pri |-> NewPriKey(curve, d),
               pub |-> PublicKey(NewPriKey(curve, d)),
               err |-> "nil"]

\* byte length of a coordinate on the curve
ByteLen(curve) ==
    CASE curve = "P224" -> 28
      [] curve = "P256" -> 32
      [] curve = "P384" -> 48
      [] curve = "P521" -> 66
      [] OTHER -> 24

\* elliptic.Marshal: the uncompressed point, 0x04 || X || Y, each
\* coordinate padded to the curve's byte length
Marshal(curve, x, y) == <<4, ByteLen(curve), x, y>>

\* sha256 as a collision-free digest
Sha256(data) == <<"sha256", data>>

\* a variant that hashes the private scalar along with the point
PriSKIWithScalar(key) ==
    IF key = NoKey THEN <<>>
    ELSE Sha256(<<Marshal(key.Curve, key.X, key.Y), key.D>>)

PriSKI(key) ==
    IF key = NoKey THEN <<>> ELSE Sha256(Marshal(key.Curve, key.X, key.Y))

\* a variant that hashes the X coordinate only
PubSKIOnlyX(key) ==
    IF key = NoKey THEN <<>> ELSE Sha256(<<key.Curve, key.X>>)

PubSKI(key) ==
    IF key = NoKey THEN <<>> ELSE Sha256(Marshal(key.Curve, key.X, key.Y))

SKI(key) == IF key.IsPrivate THEN PriSKI(key) ELSE PubSKI(key)

GenOpt(key) == ECDSACurveToKeyGenOpts(key.Curve)

(***************************************************************************)
(* Parts of package heimdall, kdf and encryption that the keystore calls.  *)
(***************************************************************************)
\* key.ID(): the identifier derived from the SKI
ID(key) == <<"IT", SKI(key)>>

KeyIDPrefixCheck(keyId) == keyId[1] = "IT"

SKIValidCheck(keyId, ski) == keyId = <<"IT", ski>>

IsValid(opt) == opt \in DefinedOpts

\* curves of the keys handed to the keystore; "P192" is not supported
KeyCurves == <<"P256", "P384">>

CurveIdx(curve) == CHOOSE i \in 1..Len(KeyCurves) : KeyCurves[i] = curve

\* plaintext key encodings are 0..ByteMod-1; the first Len(KeyCurves)*MaxD
\* decode to a key, the rest are structurally invalid
ValidCodes == 0..(Len(KeyCurves) * MaxD - 1)
ByteMod == Len(KeyCurves) * MaxD + 2
Bytes == 0..(ByteMod - 1)

\* key.ToByte(): the canonical encoding of the key material
ToByte(key) == (CurveIdx(key.Curve) - 1) * MaxD + (((key.X - 1) \div 2) - 1)

RecoverKeyFromByte(keyBytes, isPrivate) ==
    IF keyBytes \notin ValidCodes
    THEN [key |-> NoKey, err |-> "ErrKeyBytes"]
    ELSE LET pri == NewPriKey(KeyCurves[(keyBytes \div MaxD) + 1],
                              (keyBytes % MaxD) + 1)
         IN  [key |-> IF isPrivate THEN pri ELSE PublicKey(pri),
              err |-> "nil"]

Passwords == 1..NumPwd
Salts == 0..MaxSalt

ScryptOpts == [KdfName |-> "scrypt", KdfParams |-> "n,r,p"]
BadKdfOpts == [KdfName |-> "bogus", KdfParams |-> ""]
KdfOpts == {ScryptOpts, BadKdfOpts}

AESOpts(keyLen) == [Algorithm |-> "AES", KeyLen |-> keyLen, OpMode |-> "CTR"]
EncOpts == {AESOpts(16), AESOpts(24)}

\* kdf.NewOpts
KdfNewOpts(name, params) ==
    IF name = "scrypt"
    THEN [opt |-> [KdfName |-> name, KdfParams |-> params], err |-> "nil"]
    ELSE [opt |-> BadKdfOpts, err |-> "ErrKdfNotSupported"]

\* encryption.NewOpts
EncNewOpts(algorithm, keyLen, opMode) ==
    IF algorithm = "AES" /\ keyLen \in {16, 24, 32} /\ opMode = "CTR"
    THEN [opt |-> AESOpts(keyLen), err |-> "nil"]
    ELSE [opt |-> AESOpts(0), err |-> "ErrEncOptNotSupported"]

\* kdf.DeriveKey: deterministic, distinct inputs give distinct keys
DeriveKey(pwd, salt, keyLen, kdfOpt) ==
    IF kdfOpt.KdfName # "scrypt"
    THEN [dKey |-> <<>>, err |-> "ErrInvalidKDFParams"]
    ELSE [dKey |-> <<pwd, salt, keyLen>>, err |-> "nil"]

\* the CTR key stream of a derived key
Keystream(dKey) == (dKey[1] + NumPwd * dKey[2] + (dKey[3] \div 8)) % ByteMod

\* encryption.EncryptKey: the key's bytes combined with the key stream
EncryptKey(key, dKey, encOpt) ==
    [bytes |-> (ToByte(key) + Keystream(dKey)) % ByteMod, err |-> "nil"]

\* encryption.DecryptKey: CTR mode has no authentication, a wrong key
\* yields other bytes and no error
DecryptKey(encryptedKeyBytes, dKey, encOpt) ==
    [bytes |-> (encryptedKeyBytes + ByteMod - Keystream(dKey)) % ByteMod,
     err |-> "nil"]

\* encoding/hex: a byte as two hexadecimal digits
HexEncodeToString(b) == <<b \div 16, b % 16>>

HexDecodeString(str) ==
    IF Len(str) = 2 /\ \A i \in 1..2 : str[i] \in 0..15
    THEN [bytes |-> 16 * str[1] + str[2], err |-> "nil"]
    ELSE [bytes |-> 0, err |-> "ErrInvalidHex"]

\* encoding/json: the serialized record; anything else does not parse
JsonMarshal(keyFile) == [json |-> keyFile]

JsonUnmarshal(data) ==
    IF "json" \in DOMAIN data
    THEN [keyFile |-> data.json, err |-> "nil"]
    ELSE [keyFile |-> NoKey, err |-> "ErrUnmarshal"]

(***************************************************************************)
(* keystore.go                                                             *)
(***************************************************************************)
Absent == [absent |-> TRUE]
Garbage == [garbage |-> TRUE]
NoHints == [nohints |-> TRUE]
NoPath == <<>>
None == [none |-> TRUE]

\* keys a caller may hand to StoreKey ("StoreKey stores private key"): the
\* private keys on the supported curves, and one on a curve that is not
\* supported
StorableKeys ==
    {NewPriKey(KeyCurves[i], d) : i \in 1..Len(KeyCurves), d \in Scalars}

OtherKeys == {NewPriKey("P192", 1)}

KeyInputs == StorableKeys \cup OtherKeys

\* a file name that fails the identifier format check
BadID == <<"XX", SKI(NewPriKey(KeyCurves[1], 1))>>

\* the file names the key directory can hold
Names == {ID(k) : k \in StorableKeys} \cup {BadID}

\* identifiers handed to LoadKey
IdInputs == Names \cup {ID(k) : k \in OtherKeys}

RemoveAll(fs) == [n \in DOMAIN fs |-> Absent]

\* makeKeyFilePath: creates the directory when it is missing
makeKeyFilePath(keyFileName, dir) ==
    [path |-> keyFileName, dirExists |-> TRUE, err |-> "nil"]

\* a variant that records a fixed salt instead of the one drawn
makeEncryptionHintsFixedSalt(encOpt, kdfOpt, kdfSalt) ==
    [EncOpt |-> encOpt, KDFOpt |-> kdfOpt, KDFSalt |-> 0]

makeEncryptionHints(encOpt, kdfOpt, kdfSalt) ==
    [EncOpt |-> encOpt, KDFOpt |-> kdfOpt, KDFSalt |-> kdfSalt]

makeJsonKeyFile(encHints, ski, keyGenOpt, encryptedKeyBytes, isPrivate) ==
    JsonMarshal([SKI |-> ski,
                 KeyGenOpt |-> String(keyGenOpt),
                 IsPrivate |-> isPrivate,
                 EncryptedKey |-> HexEncodeToString(encryptedKeyBytes),
                 Hints |-> encHints])

\* StoreKey up to the serialized record (lines 59-93): nothing is written
\* yet, the directory is created on the way
StorePrepare(dir, key, pwd, salt, encOpt, kdfOpt) ==
    LET ski == SKI(key)
        keyId == ID(key)
        keyGenOpt == GenOpt(key)
    IN  IF ~IsValid(keyGenOpt)
        THEN [err |-> "ErrInvalidKeyGenOpt", dirExists |-> dir,
              path |-> NoPath, data |-> Absent]
        ELSE
        LET p == makeKeyFilePath(keyId, dir)
            d == DeriveKey(pwd, salt, encOpt.KeyLen, kdfOpt)
        IN  IF d.err # "nil"
            THEN [err |-> d.err, dirExists |-> p.dirExists,
                  path |-> NoPath, data |-> Absent]
            ELSE
            LET e == EncryptKey(key, d.dKey, encOpt)
                encHints == makeEncryptionHints(encOpt, kdfOpt, salt)
            IN  [err |-> "nil", dirExists |-> p.dirExists,
                 path |-> p.path,
                 data |-> makeJsonKeyFile(encHints, ski, keyGenOpt,
                                          e.bytes, key.IsPrivate)]

\* os.Stat(keyFilePath); os.IsNotExist(err)
StatNotExist(fs, path) == fs[path] = Absent

\* a variant that creates the file only when none is there
WriteFileExclusive(fs, path, data) ==
    IF fs[path] # Absent THEN fs ELSE [fs EXCEPT ![path] = data]

\* ioutil.WriteFile: creates the file or replaces its content
WriteFile(fs, path, data) == [fs EXCEPT ![path] = data]

\* a variant that writes without looking
WriteAlways(fs, path, data) == WriteFile(fs, path, data)

\* lines 95-100: write only when no file is at the path
WriteIfAbsent(fs, path, data) ==
    IF StatNotExist(fs, path) THEN WriteFile(fs, path, data) ELSE fs

StoreKey(fs, dir, key, pwd, salt, encOpt, kdfOpt) ==
    LET p == StorePrepare(dir, key, pwd, salt, encOpt, kdfOpt)
    IN  IF p.err # "nil"
        THEN [files |-> fs, dirExists |-> p.dirExists, err |-> p.err]
        ELSE [files |-> WriteIfAbsent(fs, p.path, p.data),
              dirExists |-> p.dirExists, err |-> "nil"]

\* the steps of LoadKey in the order of the code
LoadSteps ==
    <<"Stat", "KeyIDPrefixCheck", "findKeyById", "loadJsonKeyFile",
      "Unmarshal", "SKIValidCheck", "kdf.NewOpts", "encryption.NewOpts",
      "DeriveKey", "DecodeString", "DecryptKey", "RecoverKeyFromByte">>

\* an error return after the first n steps ran
LoadFail(err, n) ==
    [key |-> NoKey, err |-> err, steps |-> SubSeq(LoadSteps, 1, n)]

findKeyById(fs, keyId) ==
    IF \E name \in DOMAIN fs : fs[name] # Absent /\ name = keyId
    THEN [keyPath |-> keyId, err |-> "nil"]
    ELSE [keyPath |-> NoPath, err |-> "ErrWrongKeyID"]

loadJsonKeyFile(fs, keyPath) ==
    IF Len(keyPath) = 0
    THEN [data |-> Absent, err |-> "ErrEmptyKeyPath"]
    ELSE [data |-> fs[keyPath], err |-> "nil"]

\* lines 168-198, after the record parsed and its SKI matched the identifier
LoadDecrypt(keyFile, pwd) ==
    IF keyFile.Hints = NoHints
    THEN LoadFail("panic: nil pointer dereference", 6)
    ELSE
    LET k == KdfNewOpts(keyFile.Hints.KDFOpt.KdfName,
                        keyFile.Hints.KDFOpt.KdfParams)
    IN  IF k.err # "nil" THEN LoadFail(k.err, 7) ELSE
    LET e == EncNewOpts(keyFile.Hints.EncOpt.Algorithm,
                        keyFile.Hints.EncOpt.KeyLen,
                        keyFile.Hints.EncOpt.OpMode)
    IN  IF e.err # "nil" THEN LoadFail(e.err, 8) ELSE
    LET d == DeriveKey(pwd, keyFile.Hints.KDFSalt, e.opt.KeyLen, k.opt)
    IN  IF d.err # "nil" THEN LoadFail(d.err, 9) ELSE
    LET h == HexDecodeString(keyFile.EncryptedKey)
    IN  IF h.err # "nil" THEN LoadFail(h.err, 10) ELSE
    LET b == DecryptKey(h.bytes, d.dKey, e.opt)
    IN  IF b.err # "nil" THEN LoadFail(b.err, 11) ELSE
    LET r == RecoverKeyFromByte(b.bytes, keyFile.IsPrivate)
    IN  IF r.err # "nil" THEN LoadFail(r.err, 12)
        ELSE [key |-> r.key, err |-> "nil", steps |-> LoadSteps]

\* a variant that looks the file up before it checks the identifier
LoadKeyLookupFirst(fs, dir, keyId, pwd) ==
    IF ~dir THEN LoadFail("ErrNotExist", 1) ELSE
    LET f == findKeyById(fs, keyId)
    IN  IF f.err # "nil" THEN LoadFail(f.err, 3) ELSE
    LET j == loadJsonKeyFile(fs, f.keyPath)
    IN  IF j.err # "nil" THEN LoadFail(j.err, 4) ELSE
    LET u == JsonUnmarshal(j.data)
    IN  IF u.err # "nil" THEN LoadFail(u.err, 5) ELSE
    IF ~KeyIDPrefixCheck(keyId) THEN LoadFail("ErrKeyIDPrefix", 5) ELSE
    IF ~SKIValidCheck(keyId, u.keyFile.SKI)
    THEN LoadFail("ErrSKINotMatched", 6)
    ELSE LoadDecrypt(u.keyFile, pwd)

LoadKey(fs, dir, keyId, pwd) ==
    IF ~dir THEN LoadFail("ErrNotExist", 1) ELSE
    IF ~KeyIDPrefixCheck(keyId) THEN LoadFail("ErrKeyIDPrefix", 2) ELSE
    LET f == findKeyById(fs, keyId)
    IN  IF f.err # "nil" THEN LoadFail(f.err, 3) ELSE
    LET j == loadJsonKeyFile(fs, f.keyPath)
    IN  IF j.err # "nil" THEN LoadFail(j.err, 4) ELSE
    LET u == JsonUnmarshal(j.data)
    IN  IF u.err # "nil" THEN LoadFail(u.err, 5) ELSE
    IF ~SKIValidCheck(keyId, u.keyFile.SKI)
    THEN LoadFail("ErrSKINotMatched", 6)
    ELSE LoadDecrypt(u.keyFile, pwd)

(***************************************************************************)
(* Initial values of the parts a specification does not use.               *)
(***************************************************************************)
Procs == {1, 2}

KeystoreInit ==
    /\ dirExists = FALSE
    /\ files = [n \in Names |-> Absent]
    /\ origin = [n \in Names |-> None]
    /\ tampers = 0

RaceIdle ==
    /\ pc = [p \in Procs |-> "idle"]
    /\ loc = [p \in Procs |-> None]
    /\ wlog = <<>>

KMIdle ==
    /\ priKey = NoKey
    /\ pubKey = NoKey
    /\ kmDir = {}
    /\ lastGen = None

OptsIdle ==
    /\ optIn = 0
    /\ strIn = ""

CertIdle ==
    /\ certDirExists = FALSE
    /\ certFiles = <<>>
    /\ crls = <<>>
    /\ now = 0

SKIIdle ==
    /\ keyA = NoKey
    /\ keyB = NoKey

(***************************************************************************)
(* Spec: the keystore, one call at a time.                                 *)
(***************************************************************************)
Init ==
    /\ KeystoreInit
    /\ RaceIdle
    /\ KMIdle
    /\ OptsIdle
    /\ CertIdle
    /\ SKIIdle
    /\ ret = [op |-> "none"]

\* a call of StoreKey; salt is what rand.Read yields
DoStoreKey(key, pwd, salt, encOpt, kdfOpt) ==
    LET r == StoreKey(files, dirExists, key, pwd, salt, encOpt, kdfOpt)
        keyId == ID(key)
        existed == keyId \in Names /\ files[keyId] # Absent
        created == keyId \in Names /\ files[keyId] = Absent
                   /\ r.files[keyId] # Absent
    IN  /\ files' = r.files
        /\ dirExists' = r.dirExists
        /\ origin' = IF created
                     THEN [origin EXCEPT ![keyId] =
                              [key |-> key, pwd |-> pwd,
                               file |-> r.files[keyId]]]
                     ELSE origin
        /\ ret' = [op |-> "StoreKey", id |-> keyId, err |-> r.err,
                   kdf |-> kdfOpt.KdfName,
                   data |-> StorePrepare(dirExists, key, pwd, salt,
                                         encOpt, kdfOpt).data,
                   existed |-> existed,
                   before |-> IF existed THEN files[keyId] ELSE Absent]
        /\ UNCHANGED <<tampers, raceVars, kmVars, optVars, certVars, skiVars>>

\* a call of LoadKey with the recoverer of the keys' algorithm
DoLoadKey(keyId, pwd) ==
    LET r == LoadKey(files, dirExists, keyId, pwd)
    IN  /\ ret' = [op |-> "LoadKey", id |-> keyId, pwd |-> pwd,
                   key |-> r.key, err |-> r.err, steps |-> r.steps]
        /\ UNCHANGED <<keystoreVars, raceVars, kmVars, optVars, certVars, skiVars>>

\* os.RemoveAll(KeyDirPath), as the sample program does when it ends
DoRemoveAll ==
    /\ dirExists
    /\ dirExists' = FALSE
    /\ files' = RemoveAll(files)
    /\ origin' = [n \in Names |-> None]
    /\ ret' = [op |-> "RemoveAll"]
    /\ UNCHANGED <<tampers, raceVars, kmVars, optVars, certVars, skiVars>>

\* another process puts content at a name of the shared directory
Alter(name, content) ==
    /\ dirExists
    /\ tampers < MaxTamper
    /\ content # files[name]
    /\ files' = [files EXCEPT ![name] = content]
    /\ origin' = [origin EXCEPT ![name] = None]
    /\ tampers' = tampers + 1
    /\ ret' = [op |-> "Alter"]
    /\ UNCHANGED <<dirExists, raceVars, kmVars, optVars, certVars, skiVars>>

\* a file that does not parse
Corrupt == \E name \in Names : Alter(name, Garbage)

\* a key file copied or renamed to another name
CopyFile ==
    \E src \in Names, dst \in Names :
        /\ src # dst
        /\ files[src] # Absent
        /\ Alter(dst, files[src])

HexInputs == {HexEncodeToString(b) : b \in Bytes} \cup {<<16, 0>>}

\* the ciphertext of a key file replaced
AlterCiphertext ==
    \E name \in Names, h \in HexInputs :
        /\ "json" \in DOMAIN files[name]
        /\ Alter(name, JsonMarshal([files[name].json EXCEPT
                                        !.EncryptedKey = h]))

\* the hints of a key file dropped or naming an unknown KDF
AlterHints ==
    \E name \in Names :
        /\ "json" \in DOMAIN files[name]
        /\ \/ Alter(name, JsonMarshal([files[name].json EXCEPT
                                           !.Hints = NoHints]))
           \/ /\ files[name].json.Hints # NoHints
              /\ Alter(name, JsonMarshal([files[name].json EXCEPT
                                              !.Hints.KDFOpt = BadKdfOpts]))

CallStoreKey ==
    \E key \in KeyInputs, pwd \in Passwords, salt \in Salts,
       encOpt \in EncOpts, kdfOpt \in KdfOpts :
        DoStoreKey(key, pwd, salt, encOpt, kdfOpt)

CallLoadKey == \E keyId \in IdInputs, pwd \in Passwords : DoLoadKey(keyId, pwd)

Next ==
    \/ CallStoreKey
    \/ CallLoadKey
    \/ DoRemoveAll
    \/ Corrupt
    \/ CopyFile
    \/ AlterCiphertext
    \/ AlterHints

Spec == Init /\ [][Next]_vars

(***************************************************************************)
(* Properties of the keystore, checked under Spec.                         *)
(***************************************************************************)
Range(seq) == {seq[i] : i \in 1..Len(seq)}

\* the last call was LoadKey of a file that StoreKey created under password
\* pwdOK(stored password, given password) and nobody altered since
LoadedStored(pwdOK(_, _)) ==
    /\ ret.op = "LoadKey"
    /\ ret.id \in Names
    /\ origin[ret.id] # None
    /\ pwdOK(origin[ret.id].pwd, ret.pwd)

SamePwd(p, q) == p = q
OtherPwd(p, q) == p # q

\* C1: a key stored by StoreKey under password P into a directory holding no
\* file for its identifier is loaded by LoadKey(key.ID(), P): no error, and
\* the loaded key's SKI is the stored key's SKI.
C1_RoundTrip ==
    LoadedStored(SamePwd) =>
        /\ ret.err = "nil"
        /\ SKI(ret.key) = SKI(origin[ret.id].key)

C1_Witness ==
    /\ LoadedStored(SamePwd)
    /\ ret.err = "nil"
    /\ ret.key = origin[ret.id].key

\* C2: LoadKey of a key stored under password P, called with another
\* password, never returns a key: it returns an error.
C2_WrongPasswordRejected ==
    LoadedStored(OtherPwd) => (ret.err # "nil" /\ ret.key = NoKey)

\* C3: whenever LoadKey returns a key, the SKI recomputed from the returned
\* key equals the SKI field of the key file; a file whose SKI field or
\* ciphertext does not match the decrypted key makes LoadKey fail.
C3_LoadedKeyMatchesFile ==
    (ret.op = "LoadKey" /\ ret.err = "nil") =>
        SKI(ret.key) = files[ret.id].json.SKI

C9_LoadKeyOrder ==
    ret.op = "LoadKey" =>
        LET id == ret.id
            ran == Range(ret.steps)
            noDir == ~dirExists
            badId == id[1] # "IT"
            noFile == id \notin Names \/ files[id] = Absent
            noParse == "json" \notin DOMAIN files[id]
            badSKI == <<"IT", files[id].json.SKI>> # id
        IN  /\ ret.err # "nil" => ret.key = NoKey
            /\ noDir => (ret.err = "ErrNotExist" /\ ret.steps = <<"Stat">>)
            /\ (~noDir /\ badId) =>
                   /\ ret.err = "ErrKeyIDPrefix"
                   /\ ret.steps = <<"Stat", "KeyIDPrefixCheck">>
            /\ (~noDir /\ ~badId /\ noFile) =>
                   /\ ret.err = "ErrWrongKeyID"
                   /\ ret.steps = SubSeq(LoadSteps, 1, 3)
            /\ (~noDir /\ ~badId /\ ~noFile /\ noParse) =>
                   /\ ret.err = "ErrUnmarshal"
                   /\ ret.steps = SubSeq(LoadSteps, 1, 5)
            /\ (~noDir /\ ~badId /\ ~noFile /\ ~noParse /\ badSKI) =>
                   /\ ret.err = "ErrSKINotMatched"
                   /\ ret.steps = SubSeq(LoadSteps, 1, 6)
            /\ (ran \cap {"DeriveKey", "DecryptKey"} # {}) =>
                   (~noDir /\ ~badId /\ ~noFile /\ ~noParse /\ ~badSKI)

\* a malformed identifier is refused although a file of that name exists
C9_Witness ==
    /\ ret.op = "LoadKey"
    /\ dirExists
    /\ ret.id = BadID
    /\ files[BadID] # Absent
    /\ ret.err = "ErrKeyIDPrefix"
    /\ ret.steps = <<"Stat", "KeyIDPrefixCheck">>

(***************************************************************************)
(* SpecRace: two callers inside StoreKey at once.  A call is three steps:  *)
(* the preparation of the record (lines 59-93), os.Stat (line 95) and      *)
(* ioutil.WriteFile (line 96).  Nothing locks the file between them.       *)
(***************************************************************************)
RaceBegin(p, key, pwd, salt, encOpt, kdfOpt) ==
    LET r == StorePrepare(dirExists, key, pwd, salt, encOpt, kdfOpt)
    IN  /\ pc[p] = "idle"
        /\ dirExists' = r.dirExists
        /\ loc' = [loc EXCEPT ![p] =
                      [path |-> r.path, data |-> r.data, err |-> r.err]]
        /\ pc' = [pc EXCEPT ![p] = IF r.err # "nil" THEN "done" ELSE "stat"]
        /\ UNCHANGED <<files, origin, tampers, ret, wlog, kmVars, optVars, certVars, skiVars>>

RaceStat(p) ==
    /\ pc[p] = "stat"
    /\ pc' = [pc EXCEPT ![p] =
                 IF StatNotExist(files, loc[p].path) THEN "write" ELSE "done"]
    /\ UNCHANGED <<keystoreVars, ret, loc, wlog, kmVars, optVars, certVars, skiVars>>

RaceWrite(p) ==
    /\ pc[p] = "write"
    /\ files' = WriteFile(files, loc[p].path, loc[p].data)
    /\ wlog' = Append(wlog, p)
    /\ pc' = [pc EXCEPT ![p] = "done"]
    /\ UNCHANGED <<dirExists, origin, tampers, ret, loc, kmVars, optVars, certVars, skiVars>>

RaceCall ==
    \E p \in Procs, key \in KeyInputs, pwd \in Passwords, salt \in Salts,
       encOpt \in EncOpts, kdfOpt \in KdfOpts :
        RaceBegin(p, key, pwd, salt, encOpt, kdfOpt)

RaceNext ==
    \/ RaceCall
    \/ \E p \in Procs : RaceStat(p)
    \/ \E p \in Procs : RaceWrite(p)

SpecRace == Init /\ [][RaceNext]_vars

\* C10: the existence check and the write of StoreKey are separate steps
\* with no lock: a caller that saw the file absent writes whatever happened
\* since, so the file holds the record of the caller that wrote last, and
\* with two callers for one identifier the later write replaces the file
\* the earlier call wrote.
C10_LastWriterWins ==
    /\ wlog # <<>> =>
           files[loc[wlog[Len(wlog)]].path] = loc[wlog[Len(wlog)]].data
    /\ \A p \in Procs : pc[p] = "write" => loc[p].err = "nil"

\* both callers saw the file absent, both wrote, and the file of the first
\* writer was replaced by the different record of the second
C10_Witness ==
    /\ Len(wlog) = 2
    /\ loc[1].path = loc[2].path
    /\ loc[1].data # loc[2].data
    /\ files[loc[1].path] = loc[wlog[2]].data
    /\ files[loc[1].path] # loc[wlog[1]].data

(***************************************************************************)
(* key/keyManagerImpl.go                                                   *)
(***************************************************************************)
\* RSAKeyGenerator.Generate: a pair for the generator's modulus length
RSAGenerate(bits, d) ==
    IF d = 0
    THEN [pri |-> NoKey, pub |-> NoKey, err |-> "failed to generate RSA key"]
    ELSE [pri |-> [Bits |-> bits, D |-> d, N |-> PointX(d),
                   IsPrivate |-> TRUE],
          pub |-> [Bits |-> bits, D |-> 0, N |-> PointX(d),
                   IsPrivate |-> FALSE],
          err |-> "nil"]

RSABitsToKeyGenOpts(bits) ==
    CASE bits = 1024 -> RSA1024
      [] bits = 2048 -> RSA2048
      [] bits = 4096 -> RSA4096
      [] OTHER -> UNKNOWN_KEYGENOPT

\* the option a key was generated for
KeyOpt(key) ==
    IF "Curve" \in DOMAIN key
    THEN GenOpt(key)
    ELSE RSABitsToKeyGenOpts(key.Bits)

\* the registry NewKeyManager builds
generators ==
    (RSA1024 :> [Alg |-> "RSA", Bits |-> 1024]) @@
    (RSA2048 :> [Alg |-> "RSA", Bits |-> 2048]) @@
    (RSA4096 :> [Alg |-> "RSA", Bits |-> 4096]) @@
    (ECDSA224 :> [Alg |-> "ECDSA", Curve |-> "P224"]) @@
    (ECDSA256 :> [Alg |-> "ECDSA", Curve |-> "P256"]) @@
    (ECDSA384 :> [Alg |-> "ECDSA", Curve |-> "P384"]) @@
    (ECDSA521 :> [Alg |-> "ECDSA", Curve |-> "P521"])

\* keyGenerator.Generate(opts) of a registered generator
GeneratorGenerate(gen, d) ==
    IF gen.Alg = "RSA" THEN RSAGenerate(gen.Bits, d) ELSE Generate(gen.Curve, d)

\* a variant of removeKey that leaves the directory as it is
removeKeyNothing(dir, ok) == [dir |-> dir, err |-> "nil"]

\* removeKey: os.RemoveAll(km.path); ok is whether the file system lets it
removeKey(dir, ok) ==
    IF ~ok THEN [dir |-> dir, err |-> "ErrRemoveAll"]
    ELSE [dir |-> {}, err |-> "nil"]

\* keyStorer.Store: persists the pair under km.path
Store(dir, pri, pub, ok) ==
    IF ~ok THEN [dir |-> dir, err |-> "ErrStore"]
    ELSE [dir |-> dir \cup {[pri |-> pri, pub |-> pub]}, err |-> "nil"]

\* keyLoader.Load: a pair persisted under km.path; pick is the pair the
\* loader finds, None when there is none or reading fails
Load(dir, pick) ==
    IF pick = None \/ pick \notin dir
    THEN [pri |-> NoKey, pub |-> NoKey, err |-> "ErrLoad"]
    ELSE [pri |-> pick.pri, pub |-> pick.pub, err |-> "nil"]

NilOpts == [isNil |-> TRUE, v |-> 0]
Opts(o) == [isNil |-> FALSE, v |-> o]

\* GenerateKey on a manager holding pri, pub over directory dir; d is the
\* randomness the generator draws (0: it fails)
GenerateKey(pri, pub, dir, opts, d, removeOk, storeOk) ==
    LET r == removeKey(dir, removeOk)
        unchanged(dir2, err) ==
            [priKey |-> pri, pubKey |-> pub, dir |-> dir2, err |-> err,
             gen |-> None]
    IN  IF r.err # "nil" THEN unchanged(r.dir, r.err) ELSE
        IF opts.isNil THEN unchanged(r.dir, "Invalid KeyGen Options") ELSE
        IF opts.v \notin DOMAIN generators
        THEN unchanged(r.dir, "Invalid KeyGen Options") ELSE
        LET g == GeneratorGenerate(generators[opts.v], d)
        IN  IF g.err # "nil"
            THEN unchanged(r.dir, "Failed to generate a Key") ELSE
        LET st == Store(r.dir, g.pri, g.pub, storeOk)
        IN  IF st.err # "nil"
            THEN unchanged(st.dir, "Failed to store a Key")
            ELSE [priKey |-> g.pri, pubKey |-> g.pub, dir |-> st.dir,
                  err |-> "nil", gen |-> [pri |-> g.pri, pub |-> g.pub]]

\* a variant of GetKey that asks the loader on every call
GetKeyAlwaysLoad(pri, pub, dir, pick) ==
    LET l == Load(dir, pick)
    IN  IF l.err # "nil"
        THEN [priKey |-> pri, pubKey |-> pub, pri |-> NoKey,
              pub |-> NoKey, err |-> l.err, loaderCalls |-> 1,
              loaded |-> l]
        ELSE [priKey |-> l.pri, pubKey |-> l.pub, pri |-> l.pri,
              pub |-> l.pub, err |-> "nil", loaderCalls |-> 1,
              loaded |-> l]

\* GetKey: priKey, pubKey are the manager's fields afterwards, pri, pub,
\* err what the call returns
GetKey(pri, pub, dir, pick) ==
    IF pri = NoKey \/ pub = NoKey
    THEN LET l == Load(dir, pick)
         IN  IF l.err # "nil"
             THEN [priKey |-> pri, pubKey |-> pub, pri |-> NoKey,
                   pub |-> NoKey, err |-> l.err, loaderCalls |-> 1,
                   loaded |-> l]
             ELSE [priKey |-> l.pri, pubKey |-> l.pub, pri |-> l.pri,
                   pub |-> l.pub, err |-> "nil", loaderCalls |-> 1,
                   loaded |-> l]
    ELSE [priKey |-> pri, pubKey |-> pub, pri |-> pri, pub |-> pub,
          err |-> "nil", loaderCalls |-> 0, loaded |-> None]

(***************************************************************************)
(* SpecKM: one key manager and its directory.                              *)
(***************************************************************************)
KMInit ==
    /\ KeystoreInit
    /\ RaceIdle
    /\ KMIdle
    /\ OptsIdle
    /\ CertIdle
    /\ SKIIdle
    /\ ret = [op |-> "none"]

\* NewKeyManager(path): a manager with nothing cached, over what the
\* directory holds
NewKeyManager ==
    /\ priKey' = NoKey
    /\ pubKey' = NoKey
    /\ lastGen' = None
    /\ ret' = [op |-> "NewKeyManager"]
    /\ UNCHANGED <<kmDir, keystoreVars, raceVars, optVars, certVars, skiVars>>

OptsInputs == {NilOpts} \cup {Opts(o) : o \in DefinedOpts \cup {UNKNOWN_KEYGENOPT}}

DoGenerateKey ==
    \E opts \in OptsInputs, d \in 0..MaxD, removeOk \in BOOLEAN,
       storeOk \in BOOLEAN :
        LET r == GenerateKey(priKey, pubKey, kmDir, opts, d, removeOk, storeOk)
        IN  /\ priKey' = r.priKey
            /\ pubKey' = r.pubKey
            /\ kmDir' = r.dir
            /\ lastGen' = IF r.err = "nil" THEN r.gen ELSE lastGen
            /\ ret' = [op |-> "GenerateKey", opts |-> opts, d |-> d,
                       err |-> r.err, preDir |-> kmDir,
                       prePri |-> priKey, prePub |-> pubKey]
            /\ UNCHANGED <<keystoreVars, raceVars, optVars, certVars, skiVars>>

DoGetKey ==
    \E pick \in kmDir \cup {None} :
        LET r == GetKey(priKey, pubKey, kmDir, pick)
        IN  /\ priKey' = r.priKey
            /\ pubKey' = r.pubKey
            /\ ret' = [op |-> "GetKey", pri |-> r.pri, pub |-> r.pub,
                       err |-> r.err, loaderCalls |-> r.loaderCalls,
                       loaded |-> r.loaded, prePri |-> priKey,
                       prePub |-> pubKey, preDir |-> kmDir]
            /\ UNCHANGED <<kmDir, lastGen, keystoreVars, raceVars, optVars, certVars, skiVars>>

KMNext ==
    \/ NewKeyManager
    \/ DoGenerateKey
    \/ DoGetKey

SpecKM == KMInit /\ [][KMNext]_vars

\* C5: GetKey with no private or no public key cached calls the loader; on
\* success it caches the loaded pair and returns it, on failure it returns
\* the error and the manager stays empty; with a pair cached it returns that
\* pair without calling the loader, and never writes the directory.
C5_GetKeyCaching ==
    ret.op = "GetKey" =>
        LET wasEmpty == ret.prePri = NoKey \/ ret.prePub = NoKey
        IN  /\ kmDir = ret.preDir
            /\ wasEmpty =>
                   /\ ret.loaderCalls = 1
                   /\ ret.loaded.err = "nil" =>
                          /\ ret.err = "nil"
                          /\ priKey = ret.loaded.pri /\ pubKey = ret.loaded.pub
                          /\ ret.pri = priKey /\ ret.pub = pubKey
                          /\ priKey # NoKey /\ pubKey # NoKey
                   /\ ret.loaded.err # "nil" =>
                          /\ ret.err = ret.loaded.err
                          /\ ret.pri = NoKey /\ ret.pub = NoKey
                          /\ priKey = ret.prePri /\ pubKey = ret.prePub
            /\ ~wasEmpty =>
                   /\ ret.loaderCalls = 0
                   /\ ret.err = "nil"
                   /\ ret.pri = ret.prePri /\ ret.pub = ret.prePub
                   /\ priKey = ret.prePri /\ pubKey = ret.prePub

\* a cached pair is returned although the directory no longer holds it
C5_Witness ==
    /\ ret.op = "GetKey"
    /\ ret.prePri # NoKey /\ ret.prePub # NoKey
    /\ [pri |-> ret.prePri, pub |-> ret.prePub] \notin kmDir
    /\ ret.err = "nil"
    /\ ret.pri = ret.prePri /\ ret.pub = ret.prePub
    /\ ret.loaderCalls = 0

\* C6: after a successful GenerateKey(option) the directory holds exactly
\* the pair generated by this call with the generator registered for the
\* option, the manager caches exactly that pair, and a GetKey that follows
\* returns it.
C6_GenerateKey ==
    /\ (ret.op = "GenerateKey" /\ ret.err = "nil") =>
           /\ ~ret.opts.isNil /\ ret.opts.v \in DOMAIN generators
           /\ priKey # NoKey /\ pubKey # NoKey
           /\ priKey.IsPrivate /\ ~pubKey.IsPrivate
           /\ KeyOpt(priKey) = ret.opts.v /\ KeyOpt(pubKey) = ret.opts.v
           /\ priKey.D = ret.d
           /\ kmDir = {[pri |-> priKey, pub |-> pubKey]}
           /\ lastGen = [pri |-> priKey, pub |-> pubKey]
    /\ (ret.op = "GetKey" /\ lastGen # None) =>
           /\ ret.err = "nil"
           /\ ret.pri = lastGen.pri /\ ret.pub = lastGen.pub

\* GetKey after a successful GenerateKey(ECDSA384) returns the generated
\* pair, the only one in the directory
C6_Witness ==
    /\ ret.op = "GetKey"
    /\ lastGen # None
    /\ ret.pri = lastGen.pri
    /\ KeyOpt(ret.pri) = ECDSA384
    /\ kmDir = {lastGen}

\* C15: a GenerateKey that returns an error (nil or unregistered option,
\* generator failure, store failure) leaves the directory's key material
\* and the cached pair as they were before the call; so whenever the
\* manager holds a pair in memory, that pair is persisted in its directory.
C15_FailedGenerateKeyKeepsState ==
    /\ (ret.op = "GenerateKey" /\ ret.err # "nil") =>
           /\ kmDir = ret.preDir
           /\ priKey = ret.prePri /\ pubKey = ret.prePub
    /\ (priKey # NoKey /\ pubKey # NoKey) =>
           [pri |-> priKey, pub |-> pubKey] \in kmDir

(***************************************************************************)
(* SpecOpts: the functions of keyGenOpts.go applied to the inputs Init     *)
(* draws.                                                                  *)
(***************************************************************************)
OptInputs == (0 - OptSlack)..(UNKNOWN_KEYGENOPT + OptSlack)

StrInputs ==
    Range(optsArr) \cup {"unknown", "not-a-real-option", "RSA1024", ""}

OptsInit ==
    /\ KeystoreInit
    /\ RaceIdle
    /\ KMIdle
    /\ CertIdle
    /\ SKIIdle
    /\ optIn \in OptInputs
    /\ strIn \in StrInputs
    /\ ret = [op |-> "none"]

CallValidCheck ==
    /\ ret' = [op |-> "ValidCheck", out |-> ValidCheck(optIn)]
    /\ UNCHANGED <<keystoreVars, raceVars, kmVars, optVars, certVars, skiVars>>

CallString ==
    /\ ret' = [op |-> "String", out |-> String(optIn)]
    /\ UNCHANGED <<keystoreVars, raceVars, kmVars, optVars, certVars, skiVars>>

CallStringToKeyGenOpts ==
    LET r == StringToKeyGenOpts(strIn)
    IN  /\ ret' = [op |-> "StringToKeyGenOpts", opt |-> r.opt, err |-> r.err]
        /\ UNCHANGED <<keystoreVars, raceVars, kmVars, optVars, certVars, skiVars>>

\* StringToKeyGenOpts(optIn.String())
CallRoundTrip ==
    LET str == String(optIn)
        r == StringToKeyGenOpts(str)
    IN  /\ ret' = [op |-> "RoundTrip", str |-> str, opt |-> r.opt,
                   err |-> r.err]
        /\ UNCHANGED <<keystoreVars, raceVars, kmVars, optVars, certVars, skiVars>>

OptsNext ==
    \/ CallValidCheck
    \/ CallString
    \/ CallStringToKeyGenOpts
    \/ CallRoundTrip

SpecOpts == OptsInit /\ [][OptsNext]_vars

\* the canonical tokens of the seven defined options
DefinedTokens ==
    {"rsa1024", "rsa2048", "rsa4096",
     "ecdsa224", "ecdsa256", "ecdsa384", "ecdsa521"}

\* C7: for each of the seven defined options o, StringToKeyGenOpts(o.String())
\* returns o and no error, and no other defined option has o's token.
C7_CodecBijection ==
    /\ (ret.op = "RoundTrip" /\ optIn \in DefinedOpts) =>
           (ret.opt = optIn /\ ret.err = "nil")
    /\ (ret.op = "String" /\ optIn \in DefinedOpts) =>
           /\ ret.out \in DefinedTokens
           /\ \A o \in DefinedOpts \ {optIn} : String(o) # ret.out

C7_Witness ==
    /\ ret.op = "RoundTrip"
    /\ optIn = ECDSA521
    /\ ret.str = "ecdsa521"
    /\ ret.opt = ECDSA521
    /\ ret.err = "nil"

\* C8: for every string that is not the token of one of the seven defined
\* options StringToKeyGenOpts returns UNKNOWN_KEYGENOPT and an error; it
\* returns UNKNOWN_KEYGENOPT if and only if it returns an error.
C8_UnknownString ==
    ret.op = "StringToKeyGenOpts" =>
        /\ strIn \notin DefinedTokens =>
               (ret.opt = UNKNOWN_KEYGENOPT /\ ret.err # "nil")
        /\ ret.opt = UNKNOWN_KEYGENOPT <=> ret.err # "nil"

\* C14: ValidCheck returns true exactly for the seven defined options and
\* false for every other value, the sentinel UNKNOWN_KEYGENOPT, negative
\* values and values past the sentinel included; String() returns the
\* canonical token of a defined option only for an option ValidCheck
\* accepts.
C14_ValidCheckExact ==
    /\ ret.op = "ValidCheck" => (ret.out <=> optIn \in DefinedOpts)
    /\ ret.op = "String" =>
           (ret.out \in DefinedTokens =>
                (ValidCheck(optIn) /\ optIn \in DefinedOpts))

(***************************************************************************)
(* Certificates.  A certificate is a record [SubjectKeyId, SerialNumber,   *)
(* CRLDistributionPoints]; the certificate store keeps one file per        *)
(* identifier.                                                             *)
(***************************************************************************)
NoCert == [nocert |-> TRUE]

\* distribution points a certificate can name
URLs == {"ca1", "ca2"}

DPInputs == {<<>>, <<"ca1">>, <<"ca1", "ca2">>}

\* x509.CreateCertificate and DERToX509Cert on a template whose
\* SubjectKeyId was set to the SKI of the subject's key
CreateCertificate(subjectKeyId, serial, dps) ==
    [SubjectKeyId |-> subjectKeyId, SerialNumber |-> serial,
     CRLDistributionPoints |-> dps]

\* the keys certificates are issued for, and one that never gets one
CertKeys == {NewPriKey("P384", d) : d \in Scalars} \cup {NewPriKey("P256", 1)}

UncertifiedKey == NewPriKey("P521", 1)

Serials == 1..MaxSerial

\* the SKI a certificate template gets for key: hRootPri.SKI() in the
\* tests, hClientPub.SKI() in the sample
TemplateSKIs(key) == {PriSKI(key), PubSKI(PublicKey(key))}

CertNames ==
    {ID(k) : k \in CertKeys}
    \cup {<<"IT", ski>> : ski \in UNION {TemplateSKIs(k) : k \in CertKeys}}

CertIdInputs == CertNames \cup {ID(UncertifiedKey)}

\* the textual container of a certificate
X509CertToPem(cert) == [pem |-> "CERTIFICATE", der |-> cert]

PemToX509Cert(data) ==
    IF "pem" \in DOMAIN data
    THEN [cert |-> data.der, err |-> "nil"]
    ELSE [cert |-> NoCert, err |-> "ErrDecode"]

\* the file name of a certificate: the identifier of its SubjectKeyId
CertFileName(cert) == <<"IT", cert.SubjectKeyId>>

\* Store(certificate, directory): writes the encoded certificate at the
\* path of its identifier, non-clobbering as the keystore; ioOk is whether
\* the file system lets it
StoreCert(fs, dir, cert, ioOk) ==
    IF ~ioOk
    THEN [files |-> fs, dirExists |-> dir, err |-> "ErrWrite"]
    ELSE [files |-> WriteIfAbsent(fs, CertFileName(cert),
                                  X509CertToPem(cert)),
          dirExists |-> TRUE, err |-> "nil"]

\* Load(identifier, directory): CertificateNotFound if absent or malformed
LoadCert(fs, dir, keyId) ==
    IF ~dir \/ keyId \notin DOMAIN fs \/ fs[keyId] = Absent
    THEN [cert |-> NoCert, err |-> "CertificateNotFound"]
    ELSE LET d == PemToX509Cert(fs[keyId])
         IN  IF d.err # "nil"
             THEN [cert |-> NoCert, err |-> "CertificateNotFound"]
             ELSE [cert |-> d.cert, err |-> "nil"]

(***************************************************************************)
(* SpecCert: the certificate store, one call at a time.                    *)
(***************************************************************************)
CertInit ==
    /\ KeystoreInit
    /\ RaceIdle
    /\ KMIdle
    /\ OptsIdle
    /\ SKIIdle
    /\ certDirExists = FALSE
    /\ certFiles = [n \in CertNames |-> Absent]
    /\ crls = <<>>
    /\ now = 0
    /\ ret = [op |-> "none"]

\* a certificate is issued for key with the given serial number and stored
DoStoreCert ==
    \E key \in CertKeys, serial \in Serials, ioOk \in BOOLEAN :
        \E ski \in TemplateSKIs(key) :
        LET cert == CreateCertificate(ski, serial, <<>>)
            r == StoreCert(certFiles, certDirExists, cert, ioOk)
        IN  /\ certFiles' = r.files
            /\ certDirExists' = r.dirExists
            /\ ret' = [op |-> "StoreCert", key |-> key, cert |-> cert,
                       err |-> r.err,
                       before |-> certFiles[CertFileName(cert)]]
            /\ UNCHANGED <<crls, now, keystoreVars, raceVars, kmVars,
                           optVars, skiVars>>

DoLoadCert ==
    \E keyId \in CertIdInputs :
        LET r == LoadCert(certFiles, certDirExists, keyId)
        IN  /\ ret' = [op |-> "LoadCert", id |-> keyId, cert |-> r.cert,
                       err |-> r.err]
            /\ UNCHANGED <<certVars, keystoreVars, raceVars, kmVars,
                           optVars, skiVars>>

\* os.RemoveAll(CertDirPath), as the sample program and the tests do
DoRemoveAllCerts ==
    /\ certDirExists
    /\ certDirExists' = FALSE
    /\ certFiles' = RemoveAll(certFiles)
    /\ ret' = [op |-> "RemoveAll"]
    /\ UNCHANGED <<crls, now, keystoreVars, raceVars, kmVars, optVars,
                   skiVars>>

\* a certificate file damaged by another process
CorruptCert ==
    \E name \in CertNames :
        /\ certDirExists
        /\ certFiles[name] \notin {Absent, Garbage}
        /\ certFiles' = [certFiles EXCEPT ![name] = Garbage]
        /\ ret' = [op |-> "Alter"]
        /\ UNCHANGED <<certDirExists, crls, now, keystoreVars, raceVars,
                       kmVars, optVars, skiVars>>

CertNext ==
    \/ DoStoreCert
    \/ DoLoadCert
    \/ DoRemoveAllCerts
    \/ CorruptCert

SpecCert == CertInit /\ [][CertNext]_vars

\* Load(identifier) of a missing or undecodable file fails
LoadOfMissingFails ==
    ret.op = "LoadCert" =>
        LET missing == \/ ret.id \notin CertNames
                       \/ certFiles[ret.id] \in {Absent, Garbage}
        IN  /\ missing => (ret.err = "CertificateNotFound" /\ ret.cert = NoCert)
            /\ ~missing => (ret.err = "nil"
                            /\ X509CertToPem(ret.cert) = certFiles[ret.id])

\* C11 as stated: after every successful Store(cert, dir) of a certificate
\* whose SubjectKeyId is the SKI of key, Load(key.ID(), dir) succeeds and
\* returns a certificate equal to cert; Load of an identifier with no stored
\* certificate fails with CertificateNotFound.
C11_StoreLoad ==
    /\ (ret.op = "StoreCert" /\ ret.err = "nil") =>
           LoadCert(certFiles, certDirExists, ID(ret.key)) =
               [cert |-> ret.cert, err |-> "nil"]
    /\ LoadOfMissingFails

\* C11 amended: after a successful Store(cert, dir) into a directory that
\* held no file for the certificate's identifier, Load(key.ID(), dir)
\* succeeds and returns a certificate equal to cert; Load of an identifier
\* whose file is missing or undecodable fails with CertificateNotFound.
C11_StoreLoadFresh ==
    /\ (ret.op = "StoreCert" /\ ret.err = "nil" /\ ret.before = Absent) =>
           LoadCert(certFiles, certDirExists, ID(ret.key)) =
               [cert |-> ret.cert, err |-> "nil"]
    /\ LoadOfMissingFails

\* the certificate stored into an empty directory was loaded back
C11_Witness ==
    /\ ret.op = "LoadCert"
    /\ ret.err = "nil"
    /\ ret.id \in CertNames
    /\ certFiles[ret.id] = X509CertToPem(ret.cert)
    /\ ID(NewPriKey("P384", 1)) = ret.id
    /\ ret.cert.SerialNumber = MaxSerial

(***************************************************************************)
(* SpecSKI: the SKI methods of ECDSAPrivateKey and ECDSAPublicKey applied  *)
(* to two keys drawn by Init.  The keys are any values the two structs can *)
(* hold (test fixtures with fixed coordinates included), so the scalar of  *)
(* a private key is independent of its point here.                         *)
(***************************************************************************)
Coords == 1..MaxCoord

SKIKeyInputs ==
    {[Curve |-> c, D |-> d, X |-> x, Y |-> y, IsPrivate |-> TRUE] :
        c \in Range(KeyCurves), d \in Coords, x \in Coords, y \in Coords}
    \cup
    {[Curve |-> c, D |-> 0, X |-> x, Y |-> y, IsPrivate |-> FALSE] :
        c \in Range(KeyCurves), x \in Coords, y \in Coords}

SKIInit ==
    /\ KeystoreInit
    /\ RaceIdle
    /\ KMIdle
    /\ OptsIdle
    /\ CertIdle
    /\ keyA \in SKIKeyInputs
    /\ keyB \in SKIKeyInputs
    /\ ret = [op |-> "none"]

\* keyA.SKI() and keyB.SKI()
CallSKI ==
    /\ ret' = [op |-> "SKI", a |-> SKI(keyA), b |-> SKI(keyB)]
    /\ UNCHANGED <<keystoreVars, raceVars, kmVars, optVars, certVars,
                   skiVars>>

\* keyA.SKI() and keyA.PublicKey().SKI() of a private key
CallPublicKeySKI ==
    /\ keyA.IsPrivate
    /\ ret' = [op |-> "PublicKey.SKI", pri |-> PriSKI(keyA),
               pub |-> PubSKI(PublicKey(keyA))]
    /\ UNCHANGED <<keystoreVars, raceVars, kmVars, optVars, certVars,
                   skiVars>>

SKINext ==
    \/ CallSKI
    \/ CallPublicKeySKI

SpecSKI == SKIInit /\ [][SKINext]_vars

SamePublicMaterial(k1, k2) ==
    k1.Curve = k2.Curve /\ k1.X = k2.X /\ k1.Y = k2.Y

\* C12: two ECDSA keys with the same curve, X and Y have the same SKI,
\* whatever else they hold, and the SKI of a private key equals the SKI of
\* its PublicKey().
C12_SKIDeterminism ==
    /\ (ret.op = "SKI" /\ SamePublicMaterial(keyA, keyB)) => ret.a = ret.b
    /\ ret.op = "PublicKey.SKI" => ret.pri = ret.pub

\* a private key and a public key, and two private keys of different
\* scalars, over the same point
C12_Witness ==
    /\ ret.op = "SKI"
    /\ SamePublicMaterial(keyA, keyB)
    /\ keyA.IsPrivate
    /\ keyA.D # keyB.D
    /\ ret.a = ret.b
    /\ ret.a = Sha256(Marshal(keyA.Curve, keyA.X, keyA.Y))

(***************************************************************************)
(* SpecVerify: VerifyCert against the CRLs the distribution points serve.  *)
(* A CRL is a sequence of revoked certificates [SerialNumber,              *)
(* RevocationTime]; a distribution point serves [reachable, crl].          *)
(***************************************************************************)
\* what a GET of a distribution point yields
Serves(crl) == [reachable |-> TRUE, crl |-> crl]
Unreachable == [reachable |-> FALSE, crl |-> <<>>]

Times == 0..MaxTime

\* pkix.RevokedCertificate
RevokedCertificate(serial, time) ==
    [SerialNumber |-> serial, RevocationTime |-> time]

\* rootCert.CreateCRL over the revoked certificates: none, one (as the CA
\* of the sample), or two revoked at the same time
CRLInputs ==
    {<<>>}
    \cup {<<RevokedCertificate(s, t)>> : s \in Serials, t \in Times}
    \cup {<<RevokedCertificate(p[1], t), RevokedCertificate(p[2], t)>> :
              p \in {q \in Serials \X Serials : q[1] # q[2]}, t \in Times}

\* the CRL lists serial with a revocation time at or before time
Revoked(crl, serial, time) ==
    \E i \in 1..Len(crl) :
        /\ crl[i].SerialNumber = serial
        /\ crl[i].RevocationTime <= time

\* the revocation check from distribution point i on; failClosed is
\* whether a CRL that cannot be fetched fails the check
RECURSIVE CheckRevocation(_, _, _, _, _)
CheckRevocation(cert, served, time, failClosed, i) ==
    IF i > Len(cert.CRLDistributionPoints) THEN "nil"
    ELSE LET got == served[cert.CRLDistributionPoints[i]]
         IN  IF ~got.reachable
             THEN IF failClosed THEN "RevocationCheckFailure"
                  ELSE CheckRevocation(cert, served, time, failClosed, i + 1)
             ELSE IF Revoked(got.crl, cert.SerialNumber, time)
                  THEN "RevocationCheckFailure"
                  ELSE CheckRevocation(cert, served, time, failClosed, i + 1)

\* a variant that asks the first distribution point only
VerifyCertFirstPoint(cert, served, time, chainOk, failClosed) ==
    IF ~chainOk THEN "ChainValidationError"
    ELSE IF Len(cert.CRLDistributionPoints) = 0 THEN "nil"
    ELSE CheckRevocation([cert EXCEPT !.CRLDistributionPoints =
                              <<cert.CRLDistributionPoints[1]>>],
                         served, time, failClosed, 1)

\* VerifyCert(certificate): chainOk is whether the chain and the validity
\* windows verify
VerifyCert(cert, served, time, chainOk, failClosed) ==
    IF ~chainOk THEN "ChainValidationError"
    ELSE CheckRevocation(cert, served, time, failClosed, 1)

VerifyInit ==
    /\ KeystoreInit
    /\ RaceIdle
    /\ KMIdle
    /\ OptsIdle
    /\ SKIIdle
    /\ certDirExists = FALSE
    /\ certFiles = [n \in CertNames |-> Absent]
    /\ crls = [u \in URLs |-> Serves(<<>>)]
    /\ now = 0
    /\ ret = [op |-> "none"]

\* a CA publishes a CRL at its distribution point
PublishCRL ==
    \E u \in URLs, crl \in CRLInputs :
        /\ crls[u] # Serves(crl)
        /\ crls' = [crls EXCEPT ![u] = Serves(crl)]
        /\ ret' = [op |-> "PublishCRL"]
        /\ UNCHANGED <<certDirExists, certFiles, now, keystoreVars, raceVars,
                       kmVars, optVars, skiVars>>

\* a distribution point stops answering
ServerDown ==
    \E u \in URLs :
        /\ crls[u] # Unreachable
        /\ crls' = [crls EXCEPT ![u] = Unreachable]
        /\ ret' = [op |-> "ServerDown"]
        /\ UNCHANGED <<certDirExists, certFiles, now, keystoreVars, raceVars,
                       kmVars, optVars, skiVars>>

\* time passes
Tick ==
    /\ now < MaxTime
    /\ now' = now + 1
    /\ ret' = [op |-> "Tick"]
    /\ UNCHANGED <<certDirExists, certFiles, crls, keystoreVars, raceVars,
                   kmVars, optVars, skiVars>>

\* the caller sets the certificate's distribution points and verifies it
DoVerifyCert ==
    \E serial \in Serials, dps \in DPInputs, chainOk \in BOOLEAN,
       failClosed \in BOOLEAN :
        LET cert == CreateCertificate(PubSKI(PublicKey(UncertifiedKey)),
                                      serial, dps)
        IN  /\ ret' = [op |-> "VerifyCert", cert |-> cert,
                       chainOk |-> chainOk,
                       err |-> VerifyCert(cert, crls, now, chainOk,
                                          failClosed)]
            /\ UNCHANGED <<certVars, keystoreVars, raceVars, kmVars,
                           optVars, skiVars>>

VerifyNext ==
    \/ PublishCRL
    \/ ServerDown
    \/ Tick
    \/ DoVerifyCert

SpecVerify == VerifyInit /\ [][VerifyNext]_vars

\* the distribution points of the verified certificate
RetPoints == Range(ret.cert.CRLDistributionPoints)

\* C13: VerifyCert of a certificate whose chain verifies fails with
\* RevocationCheckFailure when the CRL served by one of its distribution
\* points lists its serial number with a revocation time at or before the
\* current time; it succeeds when every distribution point served its CRL
\* and none lists the serial number, and when the certificate names no
\* distribution point.
C13_Revocation ==
    (ret.op = "VerifyCert" /\ ret.chainOk) =>
        LET listed(u) ==
                /\ crls[u].reachable
                /\ \E i \in 1..Len(crls[u].crl) :
                       crls[u].crl[i].SerialNumber = ret.cert.SerialNumber
            revokedAt(u) ==
                /\ crls[u].reachable
                /\ \E i \in 1..Len(crls[u].crl) :
                       /\ crls[u].crl[i].SerialNumber = ret.cert.SerialNumber
                       /\ crls[u].crl[i].RevocationTime <= now
        IN  /\ (\E u \in RetPoints : revokedAt(u)) =>
                   ret.err = "RevocationCheckFailure"
            /\ (\A u \in RetPoints : crls[u].reachable /\ ~listed(u)) =>
                   ret.err = "nil"
            /\ RetPoints = {} => ret.err = "nil"

\* the certificate is listed by its second distribution point only, and is
\* rejected
C13_Witness ==
    /\ ret.op = "VerifyCert"
    /\ ret.chainOk
    /\ ret.cert.CRLDistributionPoints = <<"ca1", "ca2">>
    /\ crls["ca1"] = Serves(<<RevokedCertificate(1, 0)>>)
    /\ crls["ca2"] = Serves(<<RevokedCertificate(2, 1)>>)
    /\ ret.cert.SerialNumber = 2
    /\ now = 1
    /\ ret.err = "RevocationCheckFailure"

====
